---- MODULE Spec2Model ----
(***************************************************************************)
(* Model of src/main.py: the regular-expression extraction of the Gantt    *)
(* table (extract_gantt_chart), the metrics writer (save_metrics) and the  *)
(* file writes of main.                                                    *)
(*                                                                         *)
(* A text is a sequence of tokens.  A token is one character, except that  *)
(* the fifteen characters "### Gantt Chart" are one token: the literal has *)
(* no proper border, so no match of it can start inside another one.       *)
(***************************************************************************)
EXTENDS Integers, Sequences, FiniteSets, TLC

\* ------------------------------------------------------------------ bounds
MaxFragments == 5   \* fragments concatenated into a free-form input text
MaxRows == 3        \* table rows per section of a two-section input text
MaxOps == 2         \* save_metrics calls and main runs in one behaviour

\* ------------------------------------------------------------------ tokens
MARK == "### Gantt Chart"
NL == "\n"
PIPE == "|"

\* ------------------------------------------------ extract_gantt_chart (regex)
\* A failed match, and a successful one with the text of group 1.
NoMatch == [ok |-> FALSE, group1 |-> <<>>]
Matched(g) == [ok |-> TRUE, group1 |-> g]

\* Position of the first "\n" at or after `from`, 0 when there is none:
\* where a lazy `.*?` followed by `\n` stops (re.DOTALL: `.` is any token).
RECURSIVE LazyToNewline(_, _)
LazyToNewline(s, from) ==
    IF from > Len(s) THEN 0
    ELSE IF s[from] = NL THEN from
    ELSE LazyToNewline(s, from + 1)

\* Position of the last "\n" at or after `from`, 0 when there is none: where
\* a greedy `.*` followed by `\n` stops under re.DOTALL.
RECURSIVE GreedyToNewline(_, _)
GreedyToNewline(s, from) ==
    IF from > Len(s) THEN 0
    ELSE LET later == GreedyToNewline(s, from + 1)
         IN  IF later # 0 THEN later
             ELSE IF s[from] = NL THEN from ELSE 0

\* Faulty variant of RowEnd: the row is matched by a greedy `\|.*\n`.
RowEndGreedy(s, p) == GreedyToNewline(s, p + 1)

\* End of one iteration `\|.*?\n` of the captured group, whose `|` is at p.
RowEnd(s, p) == LazyToNewline(s, p + 1)

\* ((?:\|.*?\n)*) from position p: the greedy star repeats `\|.*?\n` while
\* it matches; nothing follows the group, so no iteration is ever undone.
\* The value is the position after the last row taken.
RECURSIVE GroupEnd(_, _)
GroupEnd(s, p) ==
    LET e == IF p <= Len(s) /\ s[p] = PIPE THEN RowEnd(s, p) ELSE 0
    IN  IF e # 0 THEN GroupEnd(s, e + 1) ELSE p

\* `.*?\n((?:\|.*?\n)*)` from position p, just after the separator's `|`.
SeparatorAndGroup(s, p) ==
    LET k == LazyToNewline(s, p)
    IN  IF k = 0 THEN NoMatch
        ELSE Matched(SubSeq(s, k + 1, GroupEnd(s, k + 1) - 1))

\* `.*?\n\|` of the header row followed by the rest of the pattern, the lazy
\* `.*?` having consumed the tokens before j: each end j is tried in
\* increasing order, and the next one only when the rest fails.
RECURSIVE HeaderLazy(_, _)
HeaderLazy(s, j) ==
    IF j + 1 > Len(s) THEN NoMatch
    ELSE LET rest == IF s[j] = NL /\ s[j + 1] = PIPE
                     THEN SeparatorAndGroup(s, j + 2)
                     ELSE NoMatch
         IN  IF rest.ok THEN rest ELSE HeaderLazy(s, j + 1)

\* The whole pattern anchored at position i.
MatchAt(s, i) ==
    IF i + 2 <= Len(s) /\ s[i] = MARK /\ s[i + 1] = NL /\ s[i + 2] = PIPE
    THEN HeaderLazy(s, i + 3)
    ELSE NoMatch

\* re.search: the match at the leftmost position that has one.
RECURSIVE SearchFrom(_, _)
SearchFrom(s, i) ==
    IF i > Len(s) THEN NoMatch
    ELSE LET m == MatchAt(s, i)
         IN  IF m.ok THEN m ELSE SearchFrom(s, i + 1)

re_search(s) == SearchFrom(s, 1)

extract_gantt_chart(s) ==
    LET match == re_search(s)
    IN  IF match.ok THEN <<MARK, NL, PIPE>> \o match.group1 ELSE <<>>


\* ---------------------------------------------------------- formatted text
\* A file holds a sequence of tokens as well: one token per character written,
\* each literal piece of a format string being one token.

Digit(d) == <<"0", "1", "2", "3", "4", "5", "6", "7", "8", "9">>[d + 1]

\* str(n) of a natural number.
RECURSIVE Decimal(_)
Decimal(n) == IF n < 10 THEN <<Digit(n)>> ELSE Decimal(n \div 10) \o <<Digit(n % 10)>>

\* datetime.now().strftime('%Y-%m-%d %H:%M:%S'): nineteen characters whose
\* value is whatever the wall clock reads at the call.  No statement of the
\* program reads a timestamp back, so the token leaves the value open.
Timestamp == "%Y-%m-%d %H:%M:%S"

\* f"{costs:.4f}": costs is in units of 1e-5 dollar; the text is the value
\* rounded to four decimals, all four written.
Fixed4(costs) ==
    LET q == (costs + 5) \div 10
    IN  Decimal(q \div 10000)
        \o <<".", Digit((q \div 1000) % 10), Digit((q \div 100) % 10),
             Digit((q \div 10) % 10), Digit(q % 10)>>

\* f"{now} Total costs: ${costs:.4f}", without the newline.
CostText(costs) == <<Timestamp, " Total costs: $">> \o Fixed4(costs)

\* The cost line save_metrics writes (line 106).
CostLine(costs) == CostText(costs) \o <<NL>>

\* f"\n\n# Gantt Chart - {now}\n" (line 112).
GanttHeader == <<NL, NL, "# Gantt Chart - ", Timestamp, NL>>

\* f"\n\n=== New Run - {now} ===\n" (line 117).
RunHeader == <<NL, NL, "=== New Run - ", Timestamp, " ===", NL>>

\* ------------------------------------------------------------- save_metrics
CostFile == "cost.txt"
GanttFile == "gantt_chart.md"
FullFile == "full_output.txt"
TaskFile == "task_details.txt"
MilestoneFile == "milestone_details.txt"

\* Where a call may fail, in the order of the statements of save_metrics;
\* "none" is a call that returns.
SaveFailPoints ==
    {"makedirs", "cost", "gantt", "gantt_chart", "full", "full_output", "none"}

\* Faulty variant of Reached: the full output is written before the cost line.
ReachedFullFirst(fail, step) ==
    LET order == [makedirs |-> 1, full |-> 2, full_output |-> 3, cost |-> 4,
                  gantt |-> 5, gantt_chart |-> 6, none |-> 7]
    IN  order[step] < order[fail]

\* The statement `step` has run without raising when the call fails at
\* `fail`: the statements run in program order and the first failure ends
\* the call.
Reached(fail, step) ==
    LET order == [makedirs |-> 1, cost |-> 2, gantt |-> 3, gantt_chart |-> 4,
                  full |-> 5, full_output |-> 6, none |-> 7]
    IN  order[step] < order[fail]

\* Faulty variant of OpenAppend: mode 'w+' truncates what the file held.
OpenTruncate(content) == <<>>

\* open(path, 'a+'): the writes go after what the file holds.
OpenAppend(content) == content

\* Faulty variant of HasChart: the chart is written whether or not one was found.
AlwaysChart(chart) == TRUE

\* `if gantt_chart:` (line 110): a non-empty string.
HasChart(chart) == chart # <<>>

\* Faulty variant of FullBlock: the block carries the extracted chart, not the text.
FullBlockOfChart(crew_output, fail) ==
    RunHeader \o extract_gantt_chart(crew_output)

\* What lines 116-118 add to full_output.txt when the call fails at `fail`.
FullBlock(crew_output, fail) ==
    RunHeader
    \o (IF Reached(fail, "full_output") THEN crew_output ELSE <<>>)

\* save_metrics(metrics_dir, crew_output, costs) on the file system fs,
\* returning (fail = "none") or raising at the statement `fail`.
save_metrics(fs, crew_output, costs, fail) ==
    LET gantt_chart == extract_gantt_chart(crew_output)
        costDone == Reached(fail, "cost")
        ganttOpen == HasChart(gantt_chart) /\ Reached(fail, "gantt")
        ganttDone == HasChart(gantt_chart) /\ Reached(fail, "gantt_chart")
        fullOpen == Reached(fail, "full")
    IN  [dir |-> fs.dir \/ Reached(fail, "makedirs"),
         exists |-> fs.exists
                    \cup (IF costDone THEN {CostFile} ELSE {})
                    \cup (IF ganttOpen THEN {GanttFile} ELSE {})
                    \cup (IF fullOpen THEN {FullFile} ELSE {}),
         cost |-> IF costDone
                  THEN OpenAppend(fs.cost) \o CostLine(costs)
                  ELSE fs.cost,
         gantt |-> IF ganttOpen
                   THEN OpenAppend(fs.gantt) \o GanttHeader
                        \o (IF ganttDone THEN gantt_chart ELSE <<>>)
                   ELSE fs.gantt,
         full |-> IF fullOpen
                  THEN OpenAppend(fs.full) \o FullBlock(crew_output, fail)
                  ELSE fs.full]

\* The failures a call can meet: os.makedirs(exist_ok=True) of a directory
\* that exists does nothing, and gantt_chart.md is opened only for a chart.
CanFail(fs, crew_output, fail) ==
    /\ fail = "makedirs" => ~fs.dir
    /\ fail \in {"gantt", "gantt_chart"} => HasChart(extract_gantt_chart(crew_output))


\* --------------------------------------------------------------------- main
RECURSIVE Concat(_)
Concat(ss) == IF ss = <<>> THEN <<>> ELSE Head(ss) \o Concat(Tail(ss))

\* str(DataFrame): the column names, then one line per row with its index;
\* a frame without rows prints as an empty frame.  No newline at the end.
DataFrameText(columns, rows) ==
    IF rows = <<>>
    THEN <<"Empty DataFrame", NL, "Columns: []", NL, "Index: []">>
    ELSE columns
         \o Concat([i \in 1..Len(rows) |-> <<NL>> \o Decimal(i - 1) \o rows[i]])

\* One row of pd.DataFrame(tasks): a TaskEstimate (lines 28-31).
TaskRow(t) ==
    <<t.task_name>> \o Decimal(t.estimated_time_hours)
    \o <<"[">> \o t.required_resources \o <<"]">>

\* One row of pd.DataFrame(milestones): a Milestone (lines 34-36).
MilestoneRow(m) == <<m.milestone_name, "[">> \o m.tasks \o <<"]">>

\* f"\nTask Details: \n{df_tasks}" (line 173).
TaskText(tasks) ==
    <<NL, "Task Details: ", NL>>
    \o DataFrameText(<<"task_name", "estimated_time_hours", "required_resources">>,
                     [i \in 1..Len(tasks) |-> TaskRow(tasks[i])])

\* f"\nMilestone Details: \n{df_milestones}" (line 180).
MilestoneText(milestones) ==
    <<NL, "Milestone Details: ", NL>>
    \o DataFrameText(<<"milestone_name", "tasks">>,
                     [i \in 1..Len(milestones) |-> MilestoneRow(milestones[i])])

\* f"\nUsage Metrics: \n{df_usage_metrics}" (line 166).
UsageText(usage) ==
    <<NL, "Usage Metrics: ", NL>>
    \o DataFrameText(<<"prompt_tokens", "completion_tokens">>,
                     << Decimal(usage.prompt_tokens) \o Decimal(usage.completion_tokens) >>)

\* 0.150 * (prompt_tokens + completion_tokens) / 1_000_000 dollars (line 149),
\* in units of 1e-5 dollar.
CostOf(usage) == (15 * (usage.prompt_tokens + usage.completion_tokens)) \div 1000

MainFailPoints == SaveFailPoints \cup {"task_details", "milestone_details"}

\* Faulty variant of OpenWrite: the file is opened for appending.
OpenWriteAppends(content) == content

\* open(path, 'w+'): the file is emptied.
OpenWrite(content) == <<>>

\* main() from crew.kickoff() on, on the file system fs: `run` is what the
\* crew returned (the text of the result, its structured plan and the usage
\* counters).  A failure
\* inside save_metrics ends main; "task_details" and "milestone_details" are
\* failures to open those files.
main(fs, run, fail) ==
    LET costs == CostOf(run.usage)
        saved == save_metrics(fs, run.text, costs,
                              IF fail \in SaveFailPoints THEN fail ELSE "none")
        returned == fail \notin (SaveFailPoints \ {"none"})
        tasksDone == returned /\ fail # "task_details"
        milestonesDone == tasksDone /\ fail # "milestone_details"
    IN  [dir |-> saved.dir,
         exists |-> saved.exists
                    \cup (IF tasksDone THEN {TaskFile} ELSE {})
                    \cup (IF milestonesDone THEN {MilestoneFile} ELSE {}),
         cost |-> IF returned
                  THEN OpenAppend(OpenAppend(saved.cost) \o CostText(costs))
                       \o UsageText(run.usage)
                  ELSE saved.cost,
         gantt |-> saved.gantt,
         full |-> saved.full,
         task |-> IF tasksDone
                  THEN OpenWrite(fs.task) \o TaskText(run.tasks)
                  ELSE fs.task,
         milestone |-> IF milestonesDone
                       THEN OpenWrite(fs.milestone) \o MilestoneText(run.milestones)
                       ELSE fs.milestone]

\* ------------------------------------------------------------------- inputs
ROWA == <<PIPE, "a", NL>>
ROWB == <<PIPE, "b", NL>>
PLAINLINE == <<"x", NL>>

\* Pieces of text: the marker line, table rows, a line of other text, a
\* character with no newline after it and a row with no newline after it.
Fragments == {<<MARK, NL>>, ROWA, ROWB, PLAINLINE, <<"x">>, <<PIPE, "a">>}

\* Every concatenation of at most n fragments.
RECURSIVE TextsOf(_)
TextsOf(n) ==
    IF n = 0 THEN {<<>>}
    ELSE LET shorter == TextsOf(n - 1)
         IN  shorter \cup {t \o f : t \in shorter, f \in Fragments}

\* Every run of 1..n table rows.
RECURSIVE RowsUpTo(_)
RowsUpTo(n) ==
    IF n <= 1 THEN {ROWA, ROWB}
    ELSE LET fewer == RowsUpTo(n - 1)
         IN  fewer \cup {t \o r : t \in fewer, r \in {ROWA, ROWB}}

\* Two marker lines, each followed by rows, other text between them.
TwoSectionTexts ==
    {pre \o <<MARK, NL>> \o r1 \o gap \o <<MARK, NL>> \o r2 :
        pre \in {<<>>, PLAINLINE}, r1 \in RowsUpTo(MaxRows),
        gap \in {PLAINLINE, <<NL>>, PLAINLINE \o PLAINLINE}, r2 \in RowsUpTo(MaxRows)}

InputTexts == TextsOf(MaxFragments) \cup TwoSectionTexts

\* What the crew may return, as str(result), and what save_metrics is given.
PlainText == <<"x", NL, PIPE, "a", NL>>
GanttText == <<"x", NL, MARK, NL>> \o ROWA \o ROWB \o ROWA \o ROWB \o PLAINLINE
HeaderOnlyText == <<MARK, NL>> \o ROWA \o ROWB
Outputs == {PlainText, GanttText, HeaderOnlyText}
Costs == {15000, 12344}

Design == [task_name |-> "Design", estimated_time_hours |-> 8,
           required_resources |-> <<"Designer">>]
Build == [task_name |-> "Build", estimated_time_hours |-> 40,
          required_resources |-> <<"Developer", "QA">>]
Launch == [milestone_name |-> "Launch", tasks |-> <<"Design", "Build">>]

Runs ==
    {[text |-> GanttText, tasks |-> <<Design, Build>>, milestones |-> <<Launch>>,
      usage |-> [prompt_tokens |-> 600000, completion_tokens |-> 400000]],
     [text |-> PlainText, tasks |-> <<Design>>, milestones |-> <<>>,
      usage |-> [prompt_tokens |-> 300000, completion_tokens |-> 200000]]}

\* -------------------------------------------------------------------- state
VARIABLES
    text, result, done,          \* extract_gantt_chart: argument, value, called
    dir,                         \* the metrics directory exists
    exists,                      \* the files that exist in it
    cost, gantt, full,           \* contents of the three logs
    task, milestone,             \* contents of the two detail files
    ops,                         \* calls made so far
    last,                        \* the last call: its kind, text and outcome
    plan,                        \* tasks and milestones of the last completed run
    saved,                       \* texts of the save_metrics calls that returned
    failed,                      \* calls that raised
    runs                         \* main runs that completed

files == <<dir, exists, cost, gantt, full, task, milestone>>
history == <<ops, last, plan, saved, failed, runs>>
vars == <<text, result, done, files, history>>

fsNow == [dir |-> dir, exists |-> exists, cost |-> cost, gantt |-> gantt,
          full |-> full, task |-> task, milestone |-> milestone]

NoCall == [op |-> "none", fail |-> "none", text |-> <<>>]
NoPlan == [tasks |-> <<>>, milestones |-> <<>>]

FilesInit ==
    /\ dir = FALSE
    /\ exists = {}
    /\ cost = <<>> /\ gantt = <<>> /\ full = <<>>
    /\ task = <<>> /\ milestone = <<>>
    /\ ops = 0 /\ last = NoCall /\ plan = NoPlan /\ saved = <<>> /\ failed = 0 /\ runs = 0

Init == text = <<>> /\ result = <<>> /\ done = FALSE /\ FilesInit

InitExtract == text \in InputTexts /\ result = <<>> /\ done = FALSE /\ FilesInit

\* ------------------------------------------------------------------ actions
\* One call of extract_gantt_chart.
Extract ==
    /\ ~done
    /\ result' = extract_gantt_chart(text)
    /\ done' = TRUE
    /\ UNCHANGED <<text, files, history>>

\* One call of save_metrics, returning or raising at `fail`.
SaveMetrics ==
    /\ ops < MaxOps
    /\ \E crew_output \in Outputs, costs \in Costs, fail \in SaveFailPoints :
       /\ CanFail(fsNow, crew_output, fail)
       /\ \E out \in {save_metrics(fsNow, crew_output, costs, fail)} :
              /\ dir' = out.dir /\ exists' = out.exists
              /\ cost' = out.cost /\ gantt' = out.gantt /\ full' = out.full
              /\ last' = [op |-> "save_metrics", fail |-> fail, text |-> crew_output]
              /\ saved' = IF fail = "none" THEN Append(saved, crew_output) ELSE saved
              /\ failed' = IF fail = "none" THEN failed ELSE failed + 1
    /\ ops' = ops + 1
    /\ UNCHANGED <<text, result, done, task, milestone, plan, runs>>

\* One run of main, completing or raising at `fail`.
Main ==
    /\ ops < MaxOps
    /\ \E run \in Runs, fail \in MainFailPoints :
       /\ CanFail(fsNow, run.text, fail)
       /\ \E out \in {main(fsNow, run, fail)} :
              /\ dir' = out.dir /\ exists' = out.exists
              /\ cost' = out.cost /\ gantt' = out.gantt /\ full' = out.full
              /\ task' = out.task /\ milestone' = out.milestone
              /\ last' = [op |-> "main", fail |-> fail, text |-> run.text]
              /\ plan' = IF fail = "none"
                         THEN [tasks |-> run.tasks, milestones |-> run.milestones]
                         ELSE plan
              /\ saved' = IF fail \in SaveFailPoints \ {"none"}
                          THEN saved ELSE Append(saved, run.text)
              /\ failed' = IF fail = "none" THEN failed ELSE failed + 1
              /\ runs' = IF fail = "none" THEN runs + 1 ELSE runs
    /\ ops' = ops + 1
    /\ UNCHANGED <<text, result, done>>

Next == SaveMetrics \/ Main

Spec == Init /\ [][Next]_vars

NextExtract == Extract

SpecExtract == InitExtract /\ [][NextExtract]_vars


\* ------------------------------------------------- vocabulary of the claims
IsPrefix(a, b) == Len(a) <= Len(b) /\ SubSeq(b, 1, Len(a)) = a

Count(s, tok) == Cardinality({i \in 1..Len(s) : s[i] = tok})

\* The lines of a text, each with its newline; the last may have none.
RECURSIVE SplitLines(_)
SplitLines(s) ==
    IF s = <<>> THEN <<>>
    ELSE IF \A k \in 1..Len(s) : s[k] # NL THEN <<s>>
    ELSE LET k == CHOOSE k \in 1..Len(s) :
                      s[k] = NL /\ \A j \in 1..(k - 1) : s[j] # NL
         IN  <<SubSeq(s, 1, k)>> \o SplitLines(SubSeq(s, k + 1, Len(s)))

\* A table row: a line that begins with `|` and ends in a newline.
IsRow(l) == Len(l) >= 2 /\ l[1] = PIPE /\ l[Len(l)] = NL

MarkerLine == <<MARK, NL>>

\* The last line of the unbroken run of rows that starts at line `from`
\* (from - 1 when line `from` is no row).
RowRunEnd(L, from) ==
    CHOOSE e \in (from - 1)..Len(L) :
        /\ \A i \in from..e : IsRow(L[i])
        /\ e = Len(L) \/ ~IsRow(L[e + 1])

\* The text is a marker line, a header row, a separator row and body rows.
OneSection(s) ==
    LET L == SplitLines(s)
    IN  Len(L) >= 3 /\ L[1] = MarkerLine /\ \A i \in 2..Len(L) : IsRow(L[i])

\* Lines i and j are the marker lines of two separate sections: the only two
\* markers of the text, the first followed by a header row and a separator
\* row, the second by a row, and a line that is no row between the two tables.
SectionsAt(s, i, j) ==
    LET L == SplitLines(s)
    IN  /\ i < j /\ j < Len(L)
        /\ L[i] = MarkerLine /\ L[j] = MarkerLine
        /\ Count(s, MARK) = 2
        /\ i + 2 < j /\ IsRow(L[i + 1]) /\ IsRow(L[i + 2])
        /\ RowRunEnd(L, i + 1) < j - 1
        /\ IsRow(L[j + 1])

\* The body rows of the section whose marker is line i.
BodyRows(s, i) ==
    LET L == SplitLines(s)
    IN  Concat(SubSeq(L, i + 3, RowRunEnd(L, i + 1)))

IsDigit(c) == c \in {"0", "1", "2", "3", "4", "5", "6", "7", "8", "9"}

\* `<timestamp> Total costs: $<amount>` and a newline, the amount written
\* with four decimals.
IsCostLine(l) ==
    /\ Len(l) >= 9
    /\ l[1] = Timestamp /\ l[2] = " Total costs: $" /\ l[Len(l)] = NL
    /\ l[Len(l) - 5] = "."
    /\ \A i \in 3..(Len(l) - 1) : i # Len(l) - 5 => IsDigit(l[i])

\* The file holds exactly n lines, each a cost line.
CostLines(f, n) ==
    LET L == SplitLines(f)
    IN  Len(L) = n /\ \A i \in 1..n : IsCostLine(L[i])

\* A call of save_metrics returned in the last step, directly or inside main.
SaveReturned(call) ==
    \/ call.op = "save_metrics" /\ call.fail = "none"
    \/ call.op = "main" /\ call.fail \in {"none", "task_details", "milestone_details"}

\* ------------------------------------------------------------------- claims

\* C1: for a text made of the marker line, a header row, a separator row and
\* k >= 0 body rows, extract_gantt_chart returns the marker line followed by
\* exactly the k body rows (for k = 0 the marker line alone).
C1_MarkerLineThenBodyRows ==
    (done /\ OneSection(text))
        => result = MarkerLine \o Concat(SubSeq(SplitLines(text), 4, Len(SplitLines(text))))

\* C2: a non-empty result comes from a marker whose next two lines are rows
\* (header, separator), and the rows returned are exactly the unbroken run of
\* rows that follows those two lines.
C2_MatchedTableIsUnbrokenRun ==
    (done /\ result # <<>>)
        => \E p \in 1..(Len(text) - 1) :
              /\ text[p] = MARK /\ text[p + 1] = NL
              /\ LET R == SplitLines(SubSeq(text, p + 2, Len(text)))
                 IN  /\ Len(R) >= 2 /\ IsRow(R[1]) /\ IsRow(R[2])
                     /\ result = <<MARK, NL, PIPE>>
                                 \o Concat(SubSeq(R, 3, RowRunEnd(R, 3)))

\* C3: a text none of whose lines is exactly `### Gantt Chart` yields the
\* empty string.
C3_NoMarkerLineNoChart ==
    (done /\ \A i \in 1..Len(SplitLines(text)) :
                 SplitLines(text)[i] \notin {MarkerLine, <<MARK>>})
        => result = <<>>

\* C4: for a text with two separate Gantt sections the result holds the body
\* rows of the first section and nothing else of the text: no row of the
\* second section and no line between the two.
C4_OnlyFirstSection ==
    done => \A i, j \in 1..Len(SplitLines(text)) :
                SectionsAt(text, i, j)
                    => result = <<MARK, NL, PIPE>> \o BodyRows(text, i)

\* C4 witness: a text with two sections, the first with body rows, the second
\* with rows other than those returned, has been extracted.
C4_Witness ==
    /\ done
    /\ \E i, j \in 1..Len(SplitLines(text)) :
          /\ SectionsAt(text, i, j)
          /\ BodyRows(text, i) # <<>>
          /\ BodyRows(text, j) # <<>>
          /\ BodyRows(text, j) # BodyRows(text, i)

\* C5: after n completed runs of main and nothing else, cost.txt holds
\* exactly n lines, each a cost line.
C5_OneCostLinePerRun ==
    (failed = 0 /\ runs = ops) => CostLines(cost, runs)

\* C6: after n >= 1 calls of save_metrics that all returned, starting without
\* the directory, the directory exists, cost.txt holds exactly n cost lines
\* and full_output.txt holds exactly the n blocks `=== New Run - <timestamp>
\* ===` of the calls, in call order, each followed by that call's text.
C6_OneEntryPerCall ==
    (failed = 0 /\ runs = 0 /\ ops >= 1)
        => /\ dir
           /\ Len(saved) = ops
           /\ {CostFile, FullFile} \subseteq exists
           /\ CostLines(cost, ops)
           /\ full = Concat([i \in 1..ops |->
                        <<NL, NL, "=== New Run - ", Timestamp, " ===", NL>> \o saved[i]])

\* C6 witness: two calls with different texts have returned, the second on
\* the directory the first created.
C6_Witness ==
    /\ failed = 0 /\ runs = 0 /\ ops = 2
    /\ saved[1] # saved[2]
    /\ Count(full, "=== New Run - ") = 2

\* C7: a call of save_metrics that returns appends one block `# Gantt Chart -
\* <timestamp>` and the extracted chart to gantt_chart.md when the chart is
\* not empty, and otherwise neither creates nor changes the file.
C7_GanttChangesIffChart ==
    [][(ops' = ops + 1 /\ SaveReturned(last'))
          => IF extract_gantt_chart(last'.text) # <<>>
             THEN /\ gantt' = gantt \o <<NL, NL, "# Gantt Chart - ", Timestamp, NL>>
                                    \o extract_gantt_chart(last'.text)
                  /\ GanttFile \in exists'
             ELSE /\ gantt' = gantt
                  /\ (GanttFile \in exists') = (GanttFile \in exists)]_vars

\* C7 witness: after a call that wrote a chart, a call without a chart has
\* returned and the file still holds the one block.
C7_Witness ==
    /\ ops = 2 /\ failed = 0
    /\ SaveReturned(last) /\ extract_gantt_chart(last.text) = <<>>
    /\ Count(gantt, "# Gantt Chart - ") = 1

\* C8: in every step each of the three logs keeps what it held as a prefix
\* of what it holds afterwards, and no log is removed.
C8_LogsAppendOnly ==
    [][/\ IsPrefix(cost, cost')
       /\ IsPrefix(gantt, gantt')
       /\ IsPrefix(full, full')
       /\ exists \cap {CostFile, GanttFile, FullFile} \subseteq exists']_vars

\* C8 witness: a second call has written to all three logs after a first one.
C8_Witness ==
    /\ ops = 2 /\ Len(saved) = 2
    /\ Count(cost, " Total costs: $") >= 2
    /\ Count(gantt, "# Gantt Chart - ") = 2
    /\ Count(full, "=== New Run - ") = 2

\* C9: after completed runs of main, task_details.txt and
\* milestone_details.txt hold the rendering of the latest run's task list and
\* milestone list and nothing else.
C9_DetailsOverwritten ==
    (failed = 0 /\ runs >= 1)
        => /\ task = TaskText(plan.tasks)
           /\ milestone = MilestoneText(plan.milestones)
           /\ {TaskFile, MilestoneFile} \subseteq exists

\* C9 witness: two runs with different plans have completed.
C9_Witness ==
    /\ failed = 0 /\ runs = 2
    /\ saved[1] # saved[2]

\* C10: the blocks of full_output.txt and of gantt_chart.md never outnumber
\* the cost lines save_metrics has written; a call writes to gantt_chart.md
\* or full_output.txt only after its cost line; and a call that fails at the
\* creation of the directory writes to none of the three files.
C10_CostFirstNoRollback ==
    [][/\ Count(full', "=== New Run - ") <= Count(cost', " Total costs: $") - runs'
       /\ Count(gantt', "# Gantt Chart - ") <= Count(cost', " Total costs: $") - runs'
       /\ (gantt' # gantt \/ full' # full) => cost' # cost
       /\ (ops' = ops + 1 /\ last'.fail = "makedirs")
             => UNCHANGED <<dir, exists, cost, gantt, full>>]_vars

\* C10 witness: a call has failed between its writes, after the cost line and
\* the chart and before the full output, and nothing was rolled back.
C10_Witness ==
    /\ last.fail = "full"
    /\ Count(cost, " Total costs: $") = Count(full, "=== New Run - ") + runs + 1
    /\ Count(gantt, "# Gantt Chart - ") >= 1

====
